---- MODULE Spec2Model ----
(***************************************************************************)
(* A model of ev3py.py: the parameter encoders LC0..LC4, the frames that   *)
(* each method of class ev3 assembles and hands to the socket, the reply   *)
(* decoding of read_sensor, and the life cycle of the socket self.brick.   *)
(* A byte string is a sequence of integers in 0..255.                      *)
(***************************************************************************)
EXTENDS Integers, Sequences, FiniteSets, TLC

(***************************************************************************)
(* Bounds of the model.                                                    *)
(***************************************************************************)
\* longest ports argument (number of letters) that is tried
MaxPorts == 2
\* number of frames the transport accepts before the model stops sending
MaxWire == 2

(***************************************************************************)
(* Python integer operators.  Python integers are unbounded two's          *)
(* complement: v & m with 0 <= m <= 255 depends on v modulo 256 only, and  *)
(* v >> n is the floor of v / 2^n, also for negative v.                    *)
(***************************************************************************)
RECURSIVE BitAnd(_, _)
BitAnd(a, b) ==
    IF a = 0 \/ b = 0 THEN 0
    ELSE (a % 2) * (b % 2) + 2 * BitAnd(a \div 2, b \div 2)

RECURSIVE BitOr(_, _)
BitOr(a, b) ==
    IF a = 0 THEN b
    ELSE IF b = 0 THEN a
    ELSE (IF a % 2 = 1 \/ b % 2 = 1 THEN 1 ELSE 0)
         + 2 * BitOr(a \div 2, b \div 2)

PyAnd(v, m) == BitAnd(v % 256, m)

PyShr(v, n) == v \div (2 ^ n)

(***************************************************************************)
(* Globals of the module.                                                  *)
(***************************************************************************)
PRIMPAR_SHORT == 0
PRIMPAR_LONG == 128
PRIMPAR_CONST == 0
PRIMPAR_VALUE == 63
PRIMPAR_1_BYTE == 1
PRIMPAR_2_BYTES == 2
PRIMPAR_4_BYTES == 3

(***************************************************************************)
(* The local-constant encoders.                                            *)
(***************************************************************************)
LC0(v) == << BitOr(BitOr(PyAnd(v, PRIMPAR_VALUE), PRIMPAR_SHORT), PRIMPAR_CONST) >>

\* a byte constant written in the short form, without its tag byte
LC1_short(v) == << PyAnd(v, PRIMPAR_VALUE) >>

LC1(v) ==
    << BitOr(BitOr(PRIMPAR_LONG, PRIMPAR_CONST), PRIMPAR_1_BYTE),
       PyAnd(v, 255) >>

\* a word constant with its payload bytes most significant first
LC2_swapped(v) ==
    << BitOr(BitOr(PRIMPAR_LONG, PRIMPAR_CONST), PRIMPAR_2_BYTES),
       PyAnd(PyShr(v, 8), 255),
       PyAnd(v, 255) >>

LC2(v) ==
    << BitOr(BitOr(PRIMPAR_LONG, PRIMPAR_CONST), PRIMPAR_2_BYTES),
       PyAnd(v, 255),
       PyAnd(PyShr(v, 8), 255) >>

LC4(v) ==
    << BitOr(BitOr(PRIMPAR_LONG, PRIMPAR_CONST), PRIMPAR_4_BYTES),
       PyAnd(v, 255),
       PyAnd(PyShr(v, 8), 255),
       PyAnd(PyShr(v, 16), 255),
       PyAnd(PyShr(v, 24), 255) >>

(***************************************************************************)
(* The lookup tables of ev3.__init__ and sum([ports_to_int[p] ...]).       *)
(* A ports argument is the sequence of letters the iteration yields.       *)
(***************************************************************************)
ports_to_int == [p \in {"a", "b", "c", "d"} |-> CASE p = "a" -> 1
                                                  [] p = "b" -> 2
                                                  [] p = "c" -> 4
                                                  [] p = "d" -> 8]

stops == [s \in {"brake", "coast"} |-> IF s = "brake" THEN 1 ELSE 0]

\* the first letter the comprehension fails to look up, "" when there is none
RECURSIVE BadPort(_)
BadPort(ports) ==
    IF ports = << >> THEN ""
    ELSE IF Head(ports) \notin DOMAIN ports_to_int THEN Head(ports)
    ELSE BadPort(Tail(ports))

RECURSIVE PortSum(_)
PortSum(ports) ==
    IF ports = << >> THEN 0
    ELSE ports_to_int[Head(ports)] + PortSum(Tail(ports))

(***************************************************************************)
(* The frames the methods assemble (the value of `command`), the ports     *)
(* argument already mapped to an integer and the stop name to its code.    *)
(***************************************************************************)
\* motor_start with the header of motor_stop's message counter
motor_start_command_counter(ports, power, layer) ==
    << 13, 0, 1, 0, 128, 0, 0 >>
    \o (<< 164 >> \o LC0(layer) \o LC0(ports) \o LC1(power))
    \o (<< 166 >> \o LC0(layer) \o LC0(ports))

motor_start_command(ports, power, layer) ==
    << 13, 0, 0, 0, 128, 0, 0 >>
    \o (<< 164 >> \o LC0(layer) \o LC0(ports) \o LC1(power))
    \o (<< 166 >> \o LC0(layer) \o LC0(ports))

motor_stop_command(ports, stop, layer) ==
    << 9, 0, 1, 0, 128, 0, 0 >>
    \o (<< 163 >> \o LC0(layer) \o LC0(ports) \o LC0(stop))

motor_degrees_command(ports, power, degrees, stop, ramp_up, ramp_down, layer) ==
    << 29, 0, 0, 0, 128, 0, 0 >>
    \o (<< 172 >> \o LC0(layer) \o LC0(ports) \o LC1(power)
        \o LC4(ramp_up) \o LC4(degrees) \o LC4(ramp_down) \o LC0(stop))
    \o (<< 166 >> \o LC0(layer) \o LC0(ports))

motor_time_command(ports, power, time, stop, ramp_up, ramp_down, layer) ==
    << 29, 0, 0, 0, 128, 0, 0 >>
    \o (<< 173 >> \o LC0(layer) \o LC0(ports) \o LC1(power)
        \o LC4(ramp_up) \o LC4(time) \o LC4(ramp_down) \o LC0(stop))
    \o (<< 166 >> \o LC0(layer) \o LC0(ports))

turn_degrees_command(ports, speed, turn, degrees, stop, layer) ==
    << 19, 0, 0, 0, 128, 0, 0 >>
    \o (<< 176 >> \o LC0(layer) \o LC0(ports) \o LC1(speed) \o LC2(turn)
        \o LC4(degrees) \o LC0(stop))

turn_time_command(ports, speed, turn, time, stop, layer) ==
    << 19, 0, 0, 0, 128, 0, 0 >>
    \o (<< 176 >> \o LC0(layer) \o LC0(ports) \o LC1(speed) \o LC2(turn)
        \o LC4(time) \o LC0(stop))

clear_tacho_command(ports, layer) ==
    << 8, 0, 0, 0, 128, 0, 0 >>
    \o (<< 178 >> \o LC0(layer) \o LC0(ports))

\* port is the caller's 1-based sensor port; the method subtracts 1 first
read_sensor_command(port, layer) ==
    << 11, 0, 0, 0, 0, 1, 0 >>
    \o (<< 154 >> \o LC0(layer) \o LC0(port - 1) \o << 0, 0, 96 >>)

\* play_tone with a header that leaves the second word constant uncounted
play_tone_command_size(volume, frequency, duration) ==
    << 12, 0, 0, 0, 128, 0, 0 >>
    \o (<< 148 >> \o LC0(1) \o LC1(volume) \o LC2(frequency) \o LC2(duration))

play_tone_command(volume, frequency, duration) ==
    << 15, 0, 0, 0, 128, 0, 0 >>
    \o (<< 148 >> \o LC0(1) \o LC1(volume) \o LC2(frequency) \o LC2(duration))

(***************************************************************************)
(* bytes.decode('utf-8') in strict mode: the code points of the text, or   *)
(* ok = FALSE where Python raises UnicodeDecodeError.                      *)
(***************************************************************************)
Utf8Width(b1) ==
    IF b1 < 128 THEN 1
    ELSE IF b1 >= 194 /\ b1 <= 223 THEN 2
    ELSE IF b1 >= 224 /\ b1 <= 239 THEN 3
    ELSE IF b1 >= 240 /\ b1 <= 244 THEN 4
    ELSE 0

\* the range allowed for the byte that follows the lead byte b1
Utf8SecondLo(b1) == IF b1 = 224 THEN 160 ELSE IF b1 = 240 THEN 144 ELSE 128

Utf8SecondHi(b1) == IF b1 = 237 THEN 159 ELSE IF b1 = 244 THEN 143 ELSE 191

Utf8Lead(b1, w) ==
    IF w = 1 THEN b1 ELSE IF w = 2 THEN b1 - 192 ELSE IF w = 3 THEN b1 - 224 ELSE b1 - 240

RECURSIVE Utf8Tail(_, _)
Utf8Tail(acc, bs) ==
    IF bs = << >> THEN acc ELSE Utf8Tail(acc * 64 + (Head(bs) - 128), Tail(bs))

RECURSIVE utf8_decode(_)
utf8_decode(b) ==
    IF b = << >> THEN [ok |-> TRUE, chars |-> << >>]
    ELSE LET w == Utf8Width(b[1])
             wellFormed ==
                 /\ w > 0
                 /\ Len(b) >= w
                 /\ \A i \in 2..w : b[i] >= 128 /\ b[i] <= 191
                 /\ w > 1 => b[2] >= Utf8SecondLo(b[1]) /\ b[2] <= Utf8SecondHi(b[1])
         IN  IF ~wellFormed THEN [ok |-> FALSE, chars |-> << >>]
             ELSE LET rest == utf8_decode(SubSeq(b, w + 1, Len(b)))
                      cp == Utf8Tail(Utf8Lead(b[1], w), SubSeq(b, 2, w))
                  IN  IF rest.ok THEN [ok |-> TRUE, chars |-> << cp >> \o rest.chars]
                      ELSE rest

(***************************************************************************)
(* hex(n) for n >= 0 as its characters, and int(s, 16).                    *)
(***************************************************************************)
HexChars == << "0", "1", "2", "3", "4", "5", "6", "7",
               "8", "9", "a", "b", "c", "d", "e", "f" >>

RECURSIVE HexDigits(_)
HexDigits(n) ==
    IF n < 16 THEN << HexChars[n + 1] >>
    ELSE HexDigits(n \div 16) \o << HexChars[(n % 16) + 1] >>

hex(n) == << "0", "x" >> \o HexDigits(n)

HexValue(c) == CHOOSE d \in 0..15 : HexChars[d + 1] = c

RECURSIVE ParseHex(_, _)
ParseHex(acc, s) ==
    IF s = << >> THEN acc ELSE ParseHex(acc * 16 + HexValue(Head(s)), Tail(s))

\* int(s, 16) of a string with the 0x prefix that hex() writes
int16(s) == ParseHex(0, SubSeq(s, 3, Len(s)))

(***************************************************************************)
(* State.                                                                  *)
(*   alive    the ev3 object exists (FALSE once __del__ has run)           *)
(*   brick    self.brick: "unset" before connect('bt') has assigned it,    *)
(*            "unconnected" a socket whose connect() raised, "open",       *)
(*            "closed" after close()                                       *)
(*   wire     number of frames the open connection has carried             *)
(*   inbox    the bytes the next recv(6) on the open socket returns;       *)
(*            << >> is an end of stream                                    *)
(*   op, args the last method called and its arguments                     *)
(*   calls    the socket calls that invocation made, in order: a send with *)
(*            the bytes handed over, a recv with the bytes returned        *)
(*   outcome  the exception that ended the invocation ("none": it returned)*)
(*   result   << v >> when the invocation returned the value v, else << >> *)
(***************************************************************************)
VARIABLES alive, brick, wire, inbox, op, args, calls, outcome, result

vars == << alive, brick, wire, inbox, op, args, calls, outcome, result >>

Exc(type, key) == [exc |-> type, key |-> key]

Returned == Exc("none", "")

SendCall(command) == [call |-> "send", data |-> command, n |-> 0]

RecvCall(bufsize, data) == [call |-> "recv", data |-> data, n |-> bufsize]

\* the invocation ends in exception e before it reaches the socket
Raise(e) ==
    /\ outcome' = e
    /\ calls' = << >>
    /\ result' = << >>
    /\ UNCHANGED << wire, inbox >>

\* a send that hands over the 7 header bytes and the commands separately
brick_send_split(command) ==
    IF brick = "unset" THEN Raise(Exc("AttributeError", "brick"))
    ELSE /\ calls' = << SendCall(SubSeq(command, 1, 7)),
                        SendCall(SubSeq(command, 8, Len(command))) >>
         /\ result' = << >>
         /\ UNCHANGED inbox
         /\ IF brick = "open"
            THEN wire < MaxWire /\ wire' = wire + 1 /\ outcome' = Returned
            ELSE outcome' = Exc("OSError", "") /\ UNCHANGED wire

\* self.brick.send(command) as the last statement of a method
brick_send(command) ==
    IF brick = "unset" THEN Raise(Exc("AttributeError", "brick"))
    ELSE /\ calls' = << SendCall(command) >>
         /\ result' = << >>
         /\ UNCHANGED inbox
         /\ IF brick = "open"
            THEN wire < MaxWire /\ wire' = wire + 1 /\ outcome' = Returned
            ELSE outcome' = Exc("OSError", "") /\ UNCHANGED wire

Called(name, a) ==
    /\ alive
    /\ op' = name
    /\ args' = a
    /\ UNCHANGED << alive, brick >>

(***************************************************************************)
(* The methods of class ev3.                                               *)
(***************************************************************************)
motor_start(ports, power, layer) ==
    /\ Called("motor_start", [ports |-> ports, power |-> power, layer |-> layer])
    /\ IF BadPort(ports) # "" THEN Raise(Exc("KeyError", BadPort(ports)))
       ELSE brick_send(motor_start_command(PortSum(ports), power, layer))

motor_stop(ports, stop, layer) ==
    /\ Called("motor_stop", [ports |-> ports, stop |-> stop, layer |-> layer])
    /\ IF BadPort(ports) # "" THEN Raise(Exc("KeyError", BadPort(ports)))
       ELSE IF stop \notin DOMAIN stops THEN Raise(Exc("KeyError", stop))
       ELSE brick_send(motor_stop_command(PortSum(ports), stops[stop], layer))

motor_degrees(ports, power, degrees, stop, ramp_up, ramp_down, layer) ==
    /\ Called("motor_degrees",
              [ports |-> ports, power |-> power, degrees |-> degrees, stop |-> stop,
               ramp_up |-> ramp_up, ramp_down |-> ramp_down, layer |-> layer])
    /\ IF BadPort(ports) # "" THEN Raise(Exc("KeyError", BadPort(ports)))
       ELSE IF stop \notin DOMAIN stops THEN Raise(Exc("KeyError", stop))
       ELSE brick_send(motor_degrees_command(PortSum(ports), power, degrees,
                                             stops[stop], ramp_up, ramp_down, layer))

motor_time(ports, power, time, stop, ramp_up, ramp_down, layer) ==
    /\ Called("motor_time",
              [ports |-> ports, power |-> power, time |-> time, stop |-> stop,
               ramp_up |-> ramp_up, ramp_down |-> ramp_down, layer |-> layer])
    /\ IF BadPort(ports) # "" THEN Raise(Exc("KeyError", BadPort(ports)))
       ELSE IF stop \notin DOMAIN stops THEN Raise(Exc("KeyError", stop))
       ELSE brick_send(motor_time_command(PortSum(ports), power, time,
                                          stops[stop], ramp_up, ramp_down, layer))

turn_degrees(ports, speed, turn, degrees, stop, layer) ==
    /\ Called("turn_degrees",
              [ports |-> ports, speed |-> speed, turn |-> turn, degrees |-> degrees,
               stop |-> stop, layer |-> layer])
    /\ IF BadPort(ports) # "" THEN Raise(Exc("KeyError", BadPort(ports)))
       ELSE IF stop \notin DOMAIN stops THEN Raise(Exc("KeyError", stop))
       ELSE brick_send(turn_degrees_command(PortSum(ports), speed, turn, degrees,
                                            stops[stop], layer))

turn_time(ports, speed, turn, time, stop, layer) ==
    /\ Called("turn_time",
              [ports |-> ports, speed |-> speed, turn |-> turn, time |-> time,
               stop |-> stop, layer |-> layer])
    /\ IF BadPort(ports) # "" THEN Raise(Exc("KeyError", BadPort(ports)))
       ELSE IF stop \notin DOMAIN stops THEN Raise(Exc("KeyError", stop))
       ELSE brick_send(turn_time_command(PortSum(ports), speed, turn, time,
                                         stops[stop], layer))

\* clear_tacho that skips the letters it does not know
RECURSIVE KnownPorts(_)
KnownPorts(ports) ==
    IF ports = << >> THEN << >>
    ELSE IF Head(ports) \in DOMAIN ports_to_int
         THEN << Head(ports) >> \o KnownPorts(Tail(ports))
         ELSE KnownPorts(Tail(ports))

clear_tacho_lenient(ports, layer) ==
    /\ Called("clear_tacho", [ports |-> ports, layer |-> layer])
    /\ brick_send(clear_tacho_command(PortSum(KnownPorts(ports)), layer))

clear_tacho(ports, layer) ==
    /\ Called("clear_tacho", [ports |-> ports, layer |-> layer])
    /\ IF BadPort(ports) # "" THEN Raise(Exc("KeyError", BadPort(ports)))
       ELSE brick_send(clear_tacho_command(PortSum(ports), layer))

play_tone(volume, frequency, duration) ==
    /\ Called("play_tone",
              [volume |-> volume, frequency |-> frequency, duration |-> duration])
    /\ brick_send(play_tone_command(volume, frequency, duration))

\* a decoder that takes the last character of the reply, whatever its length
sensor_value_last(data) ==
    LET sensor_data == utf8_decode(data)
    IN  IF ~sensor_data.ok THEN [outcome |-> Exc("UnicodeDecodeError", ""), result |-> << >>]
        ELSE IF Len(sensor_data.chars) < 1
             THEN [outcome |-> Exc("IndexError", ""), result |-> << >>]
        ELSE [outcome |-> Returned,
              result |-> << int16(hex(sensor_data.chars[Len(sensor_data.chars)])) >>]

\* recv(6).decode('utf-8'), then int(hex(ord(sensor_data[5])), 16)
sensor_value(data) ==
    LET sensor_data == utf8_decode(data)
    IN  IF ~sensor_data.ok THEN [outcome |-> Exc("UnicodeDecodeError", ""), result |-> << >>]
        ELSE IF Len(sensor_data.chars) < 6
             THEN [outcome |-> Exc("IndexError", ""), result |-> << >>]
        ELSE [outcome |-> Returned, result |-> << int16(hex(sensor_data.chars[6])) >>]

read_sensor(port, layer) ==
    /\ Called("read_sensor", [port |-> port, layer |-> layer])
    /\ IF brick # "open" THEN brick_send(read_sensor_command(port, layer))
       ELSE /\ wire < MaxWire
            /\ wire' = wire + 1
            /\ calls' = << SendCall(read_sensor_command(port, layer)), RecvCall(6, inbox) >>
            /\ inbox' = << >>
            /\ outcome' = sensor_value(inbox).outcome
            /\ result' = sensor_value(inbox).result

\* socket.socket(...) is bound to self.brick before connect((host, 1)) is tried
connect_bluetooth(connected) ==
    /\ brick' = IF connected THEN "open" ELSE "unconnected"
    /\ outcome' = IF connected THEN Returned ELSE Exc("OSError", "")
    /\ inbox' = << >>

connect(conn_type, connected) ==
    /\ alive
    /\ op' = "connect"
    /\ args' = [conn_type |-> conn_type]
    /\ calls' = << >>
    /\ result' = << >>
    /\ IF conn_type = "bt" THEN connect_bluetooth(connected)
       ELSE connected /\ outcome' = Returned /\ UNCHANGED << brick, inbox >>
    /\ UNCHANGED << alive, wire >>

\* a disconnect that leaves the socket as it is
disconnect_keep ==
    /\ alive
    /\ op' = "disconnect"
    /\ args' = << >>
    /\ calls' = << >>
    /\ result' = << >>
    /\ outcome' = IF brick = "unset" THEN Exc("AttributeError", "brick") ELSE Returned
    /\ UNCHANGED << alive, brick, wire, inbox >>

disconnect ==
    /\ alive
    /\ op' = "disconnect"
    /\ args' = << >>
    /\ calls' = << >>
    /\ result' = << >>
    /\ IF brick = "unset"
       THEN outcome' = Exc("AttributeError", "brick") /\ UNCHANGED << brick, inbox >>
       ELSE brick' = "closed" /\ inbox' = << >> /\ outcome' = Returned
    /\ UNCHANGED << alive, wire >>

del ==
    /\ alive
    /\ alive' = FALSE
    /\ op' = "__del__"
    /\ args' = << >>
    /\ calls' = << >>
    /\ result' = << >>
    /\ IF brick = "unset"
       THEN outcome' = Exc("AttributeError", "brick") /\ UNCHANGED << brick, inbox >>
       ELSE brick' = "closed" /\ inbox' = << >> /\ outcome' = Returned
    /\ UNCHANGED wire

\* the brick's answer arrives on the open connection
brick_reply(data) ==
    /\ brick = "open"
    /\ inbox = << >>
    /\ inbox' = data
    /\ UNCHANGED << alive, brick, wire, op, args, calls, outcome, result >>

(***************************************************************************)
(* Arguments tried.                                                        *)
(***************************************************************************)
Letters == {"a", "d", "z"}

SeqsUpTo(S, n) == UNION { [1..k -> S] : k \in 0..n }

PortArgs == SeqsUpTo(Letters, MaxPorts)

Powers == {-100, 50}

StopArgs == {"brake", "coast", "hold"}

Turns == {-150, 200}

\* bytes tried in the first five places of a reply: ASCII, a continuation
\* byte, the lead bytes of a 2-byte and of a 3-byte character
ReplyBytes == {65, 169, 195, 226}

Init ==
    /\ alive = TRUE
    /\ brick = "unset"
    /\ wire = 0
    /\ inbox = << >>
    /\ op = "__init__"
    /\ args = << >>
    /\ calls = << >>
    /\ outcome = Returned
    /\ result = << >>

Next ==
    \/ \E t \in {"bt", "usb", "wifi"}, c \in BOOLEAN : connect(t, c)
    \/ disconnect
    \/ del
    \/ brick_reply(<< 2, 0, 0, 0, 2, 42 >>)
    \/ \E p \in PortArgs, w \in Powers : motor_start(p, w, 0)
    \/ \E p \in PortArgs, s \in StopArgs : motor_stop(p, s, 0)
    \/ \E p \in PortArgs : motor_degrees(p, 50, 360, "brake", 0, 0, 0)
    \/ \E p \in PortArgs : motor_time(p, -100, 1000, "coast", 100, 50, 1)
    \/ \E p \in PortArgs, t \in Turns : turn_degrees(p, 50, t, 360, "brake", 0)
    \/ \E p \in PortArgs : turn_time(p, -100, -200, 1000, "coast", 0)
    \/ \E p \in PortArgs : clear_tacho(p, 0)
    \/ \E p \in {1, 4} : read_sensor(p, 0)
    \/ \E f \in {440, 65535} : play_tone(100, f, 1000)

Spec == Init /\ [][Next]_vars

(***************************************************************************)
(* The reply handling of read_sensor: the client is connected and a reply  *)
(* is in flight, one of at most 5 bytes or one of 6 bytes with any last    *)
(* byte.                                                                   *)
(***************************************************************************)
InitRead ==
    /\ alive = TRUE
    /\ brick = "open"
    /\ wire = 0
    /\ \/ inbox \in SeqsUpTo(ReplyBytes, 5)
       \/ \E r \in [1..5 -> ReplyBytes], x \in 0..255 : inbox = r \o << x >>
    /\ op = "connect"
    /\ args = [conn_type |-> "bt"]
    /\ calls = << >>
    /\ outcome = Returned
    /\ result = << >>

NextRead == read_sensor(1, 0)

SpecRead == InitRead /\ [][NextRead]_vars

(***************************************************************************)
(* The word constants of play_tone and of the synchronized turns, over the *)
(* whole range of the operand: the client is connected and the connection  *)
(* carries one more frame.                                                 *)
(***************************************************************************)
InitLC2 ==
    /\ alive = TRUE
    /\ brick = "open"
    /\ wire = MaxWire - 1
    /\ inbox = << >>
    /\ op = "connect"
    /\ args = [conn_type |-> "bt"]
    /\ calls = << >>
    /\ outcome = Returned
    /\ result = << >>

NextLC2 ==
    \/ wire < MaxWire /\ \E f \in 0..65535 : play_tone(100, f, 1000)
    \/ wire < MaxWire
       /\ \E t \in -200..200 : turn_degrees(<< "a", "d" >>, 50, t, 360, "brake", 0)
    \/ wire < MaxWire
       /\ \E t \in -200..200 : turn_time(<< "a", "d" >>, 50, t, 1000, "brake", 0)

SpecLC2 == InitLC2 /\ [][NextLC2]_vars

(***************************************************************************)
(* Vocabulary of the properties.                                           *)
(***************************************************************************)
PortOps == {"motor_start", "motor_stop", "motor_degrees", "motor_time",
            "turn_degrees", "turn_time", "clear_tacho"}

CommandOps == PortOps \cup {"read_sensor", "play_tone"}

\* the socket calls of the last invocation that are sends
Sends == { i \in DOMAIN calls : calls[i].call = "send" }

Recvs == { i \in DOMAIN calls : calls[i].call = "recv" }

\* the last invocation got as far as recv: the bytes recv returned
GotReply == op = "read_sensor" /\ Len(calls) = 2 /\ calls[2].call = "recv"

RECURSIVE PortMaskOr(_)
PortMaskOr(ports) ==
    IF ports = << >> THEN 0
    ELSE BitOr(ports_to_int[Head(ports)], PortMaskOr(Tail(ports)))

UnknownLetters(ports) ==
    { ports[i] : i \in DOMAIN ports } \ {"a", "b", "c", "d"}

Signed16(u) == IF u >= 32768 THEN u - 65536 ELSE u

\* the number of bytes of the whole frame of each operation
FrameBytes(name) ==
    CASE name = "motor_start" -> 15
      [] name = "motor_stop" -> 11
      [] name \in {"motor_degrees", "motor_time"} -> 31
      [] name \in {"turn_degrees", "turn_time"} -> 21
      [] name = "clear_tacho" -> 10
      [] name = "read_sensor" -> 13
      [] name = "play_tone" -> 17

(***************************************************************************)
(* C1: in every frame handed to send, by whichever operation and with      *)
(* whichever arguments, the little-endian number in the first two bytes    *)
(* is the byte length of the frame minus 2.                                *)
(***************************************************************************)
C1_LengthField ==
    \A i \in Sends :
        LET frame == calls[i].data
        IN  Len(frame) >= 2 /\ frame[1] + 256 * frame[2] = Len(frame) - 2

C1_Witness ==
    /\ op = "play_tone"
    /\ outcome = Returned
    /\ Sends = {1}
    /\ Len(calls[1].data) = 17
    /\ calls[1].data[1] = 15

(***************************************************************************)
(* C2: motor_start with ports 'a', power 50 and layer 0 on an open         *)
(* connection returns after handing send exactly the 15 bytes              *)
(* 0D 00 00 00 80 00 00 A4 00 01 81 32 A6 00 01, and hands send nothing    *)
(* else on any other connection.                                           *)
(***************************************************************************)
C2_MotorStartBytes ==
    (op = "motor_start" /\ args = [ports |-> << "a" >>, power |-> 50, layer |-> 0])
    => /\ brick = "open" => outcome = Returned /\ calls # << >>
       /\ calls # << >> =>
              calls = << SendCall(<< 13, 0, 0, 0, 128, 0, 0,
                                     164, 0, 1, 129, 50, 166, 0, 1 >>) >>

C2_Witness ==
    /\ op = "motor_start"
    /\ args = [ports |-> << "a" >>, power |-> 50, layer |-> 0]
    /\ brick = "open"
    /\ outcome = Returned
    /\ Len(calls) = 1
    /\ wire > 0

(***************************************************************************)
(* C3: the port mask in the frame that an operation taking ports has sent  *)
(* is the bitwise OR of the bits of the letters given, in any order and    *)
(* with letters repeated.                                                  *)
(***************************************************************************)
C3_MaskIsOr ==
    (op \in PortOps /\ outcome = Returned)
    => calls[1].data[10] = PortMaskOr(args.ports)

(***************************************************************************)
(* C4: read_sensor returns the byte at index 5 of a 6-byte reply, for      *)
(* every value of that byte and of the five bytes before it.               *)
(***************************************************************************)
C4_ReturnsSixthByte ==
    (GotReply /\ Len(calls[2].data) = 6)
    => outcome = Returned /\ result = << calls[2].data[6] >>

C6_InvalidPort ==
    [][ (op' \in PortOps /\ UnknownLetters(args'.ports) # {})
        => /\ outcome'.exc = "KeyError"
           /\ outcome'.key \in UnknownLetters(args'.ports)
           /\ calls' = << >>
           /\ wire' = wire ]_vars

C6_Witness ==
    /\ op = "clear_tacho"
    /\ args.ports = << "a", "z" >>
    /\ brick = "open"
    /\ outcome = Exc("KeyError", "z")
    /\ calls = << >>

(***************************************************************************)
(* C7, as claimed: every frame handed to send carries the message          *)
(* identifier zero in its bytes 2-3.                                       *)
(***************************************************************************)
C7_IdAlwaysZero ==
    \A i \in Sends : calls[i].data[3] = 0 /\ calls[i].data[4] = 0

(***************************************************************************)
(* C7, amended: the message identifier of a frame depends on the operation *)
(* alone: it is 1 in the frames of motor_stop and 0 in the frames of every *)
(* other operation.                                                        *)
(***************************************************************************)
C7_IdPerOperation ==
    \A i \in Sends :
        << calls[i].data[3], calls[i].data[4] >>
            = IF op = "motor_stop" THEN << 1, 0 >> ELSE << 0, 0 >>

C7_Witness ==
    /\ op = "motor_stop"
    /\ outcome = Returned
    /\ Sends = {1}
    /\ calls[1].data[3] = 1

(***************************************************************************)
(* C8: an invocation calls send at most once, before anything else and     *)
(* with the whole frame of its operation; recv is called by read_sensor    *)
(* alone, once, for 6 bytes, after its send; and a read_sensor whose send  *)
(* did not raise does call recv.                                           *)
(***************************************************************************)
C8_OneSendThenRecv ==
    /\ Cardinality(Sends) <= 1
    /\ \A i \in Sends : i = 1 /\ op \in CommandOps /\ Len(calls[i].data) = FrameBytes(op)
    /\ Cardinality(Recvs) <= 1
    /\ \A i \in Recvs : i = 2 /\ op = "read_sensor" /\ calls[i].n = 6 /\ Sends = {1}
    /\ (op = "read_sensor" /\ outcome.exc \notin {"AttributeError", "OSError"})
       => Sends = {1} /\ Recvs = {2}

C8_Witness ==
    /\ op = "read_sensor"
    /\ outcome = Returned
    /\ result = << 42 >>
    /\ calls[1].call = "send"
    /\ calls[2] = RecvCall(6, << 2, 0, 0, 0, 2, 42 >>)

(***************************************************************************)
(* C9: a word constant in a frame is the tag byte 0x82 and two payload     *)
(* bytes, directly followed by the next operand; the payload read          *)
(* little-endian is the frequency of play_tone for every frequency in      *)
(* 0..65535, and read as a signed 16-bit number it is the turn of          *)
(* turn_degrees and turn_time for every turn in -200..200.                 *)
(***************************************************************************)
C9_WordRoundTrip ==
    /\ (op = "play_tone" /\ calls # << >>)
       => LET frame == calls[1].data
          IN  /\ Len(frame) = 17
              /\ frame[12] = 130
              /\ frame[13] + 256 * frame[14] = args.frequency
              /\ frame[15] = 130
              /\ frame[16] + 256 * frame[17] = args.duration
    /\ (op \in {"turn_degrees", "turn_time"} /\ calls # << >>)
       => LET frame == calls[1].data
          IN  /\ Len(frame) = 21
              /\ frame[13] = 130
              /\ Signed16(frame[14] + 256 * frame[15]) = args.turn
              /\ frame[16] = 131

C9_Witness ==
    /\ op = "turn_degrees"
    /\ args.turn = -150
    /\ outcome = Returned
    /\ SubSeq(calls[1].data, 13, 15) = << 130, 106, 255 >>

(***************************************************************************)
(* C10: the number of frames written changes only in a command issued on   *)
(* an open connection; a command issued on a connection that is not open   *)
(* ends in an exception and writes nothing; the connection opens only in   *)
(* a connect('bt') that returns, connect('usb') and connect('wifi') leave  *)
(* it as it was, and after disconnect it is not open.                      *)
(***************************************************************************)
C10_WritesOnlyWhileOpen ==
    [][ /\ wire' # wire => brick = "open" /\ brick' = "open" /\ op' \in CommandOps
        /\ (brick # "open" /\ brick' = brick /\ op' \in CommandOps)
           => outcome'.exc # "none" /\ wire' = wire
        /\ (brick' = "open" /\ brick # "open")
           => op' = "connect" /\ args'.conn_type = "bt" /\ outcome' = Returned
        /\ (op' = "connect" /\ args'.conn_type # "bt") => brick' = brick
        /\ op' = "disconnect" => brick' # "open" ]_vars

C10_Witness ==
    /\ op \in CommandOps
    /\ brick = "closed"
    /\ wire > 0
    /\ outcome.exc = "OSError"
    /\ Len(calls) = 1

====
